---- MODULE Spec2Model ----
(***************************************************************************)
(* A model of daily-irrigation.py (irrigate.py, version 2022-03-13): the   *)
(* run of main() over the configured zones, with the watering loop of one  *)
(* zone as a state machine whose states are the places where the control   *)
(* context sleeps.                                                         *)
(*                                                                         *)
(* Numbers.  Python computes in floats; the model computes in exact        *)
(* rationals <<n, d>> (d > 0, lowest terms), so a comparison such as       *)
(* duration > 0 is decided exactly.  Units are those of the code: liters,  *)
(* liters per minute, seconds, mm.                                         *)
(*                                                                         *)
(* Time.  sleep(x) is taken to last exactly x seconds and the code between *)
(* two sleeps to take no time, so (current_time - previous_time) is the    *)
(* sum of the sleeps in between.  The model keeps the two differences the  *)
(* code uses (since previous_time, since current_time), not the clock.     *)
(*                                                                         *)
(* Cancellation (SIGTERM -> SystemExit, KeyboardInterrupt) is modelled at  *)
(* the places where the control context sleeps.                            *)
(***************************************************************************)
EXTENDS Integers, Sequences, FiniteSets, TLC

(***************************************************************************)
(* Exact rational arithmetic.                                              *)
(***************************************************************************)
Abs(n) == IF n < 0 THEN -n ELSE n

\* The arithmetic is written as functions: a function's arguments are values
GCD[a \in Nat, b \in Nat] == IF b = 0 THEN a ELSE GCD[b, a % b]

\* n/d in lowest terms with a positive denominator (d # 0)
Norm[n \in Int, d \in Int] ==
  LET s == IF d < 0 THEN -1 ELSE 1
      g == GCD[Abs(n), Abs(d)]
  IN  <<(s * n) \div g, (s * d) \div g>>

Rat == Int \X Int
R(n) == <<n, 1>>
\* x2 and y2 divided by their greatest common divisor first, to keep the products small
RAdd[x \in Rat, y \in Rat] ==
  LET g == GCD[x[2], y[2]]
  IN  Norm[x[1] * (y[2] \div g) + y[1] * (x[2] \div g), (x[2] \div g) * y[2]]
RNeg[x \in Rat] == <<-x[1], x[2]>>
RSub[x \in Rat, y \in Rat] == RAdd[x, RNeg[y]]
RMul[x \in Rat, y \in Rat] ==
  LET g == GCD[Abs(x[1]), y[2]]
      h == GCD[Abs(y[1]), x[2]]
  IN  Norm[(x[1] \div g) * (y[1] \div h), (x[2] \div h) * (y[2] \div g)]
\* y # 0
RDiv[x \in Rat, y \in Rat] == RMul[x, IF y[1] < 0 THEN <<-y[2], -y[1]>> ELSE <<y[2], y[1]>>]
RLt[x \in Rat, y \in Rat] ==
  LET g == GCD[x[2], y[2]]
  IN  x[1] * (y[2] \div g) < y[1] * (x[2] \div g)
RLe[x \in Rat, y \in Rat] == ~RLt[y, x]
RMax[x \in Rat, y \in Rat] == IF RLt[x, y] THEN y ELSE x
RMin[x \in Rat, y \in Rat] == IF RLt[y, x] THEN y ELSE x

\* a Python name that has not been assigned yet (not a number: denominator 0)
Unset == <<0, 0>>

(***************************************************************************)
(* Settings of the program (module level of daily-irrigation.py).          *)
(***************************************************************************)
EVAP_FACTOR == 1
EVAP_RANGE == 21
MAX_IRRIGATION == 10

\* zones.append(IrrigationZone(...)) in main: grass, front, side
NZones == 3
ZoneArea == <<80, 80, 40>>
ZoneShadow == << <<9, 10>>, <<7, 10>>, <<7, 10>> >>
ZoneMinFlow == << <<1, 2>>, <<1, 2>>, <<5, 1>> >>
\* flow_required = -1, the default of IrrigationZone.__init__
DefaultFlowRequired == <<-1, 1>>

\* sources.append(WaterSource(...)) in main: barrel (index 0), drinking (index 1)
NSources == 2

\* "zone_to_water not in zone.get_name().lower()": which caller-supplied word is
\* a substring of which lower-cased zone name
\* ("grass (sweat)", "front (drip)", "side (sprinkler)")
NameContains(z, word) ==
  \/ z = 1 /\ word \in {"grass", "sweat"}
  \/ z = 2 /\ word \in {"front", "drip"}
  \/ z = 3 /\ word \in {"side", "sprinkler"}

\* the sleeps of main
PRIME_WAIT == 10
SETTLE_WAIT == 15
MIN_SLEEP == 5

(***************************************************************************)
(* Inputs of a run, drawn from small sets.                                 *)
(***************************************************************************)
\* zone.get_flow_rate() results in L/min while zone z is watered: no flow; a strong
\* flow; and, when the zone requires a positive flow, a weak one, 4/5 of it
StrongFlow == <<120, 1>>
WeakFlow(required) == RMul[<<4, 5>>, required]
FlowReadingsFor(required) ==
  IF RLt[R(0), required] THEN { R(0), WeakFlow(required), StrongFlow }
                         ELSE { R(0), StrongFlow }

\* how many entries of AmountTable --amount is drawn from
NAmounts == 2
\* --amount in liters per m2 (any float that is not 0)
AmountTable == << <<1, 10>>, <<1, 2>>, <<1, 4>> >>
Amounts == { AmountTable[i] : i \in 1..NAmounts }

\* loop_seconds: 60 by default, 30 with --log info, 10 with --log debug
LoopSeconds == { 60, 30, 10 }

\* --days: the default EVAP_RANGE, or a window the caller gives
DaysArgs == { EVAP_RANGE, 2 }

\* a variant that keeps the days window beside a fixed amount
parse_arguments_keeps_days(days_arg, amount_arg, seconds) == << days_arg, amount_arg, seconds >>

\* <<days, amount, loop_seconds>> as parse_arguments returns them:
\* "if float(args.amount) != 0: days = 0 ... else: days = int(args.days), amount = 0"
parse_arguments(days_arg, amount_arg, seconds) ==
  IF amount_arg # R(0) THEN << 0, amount_arg, seconds >>
                       ELSE << days_arg, R(0), seconds >>

\* the runs of the model: any fixed amount with any loop, a look-back with the
\* default loop
ParsedRuns ==
  { run \in { parse_arguments(d, a, l) :
                d \in DaysArgs, a \in Amounts \cup { R(0) }, l \in LoopSeconds } :
      run[1] > 0 => run[3] = 60 }

\* numpy.sum(evap) and numpy.sum(rainDay) of the look-back window, mm.  A zone capped
\* at MAX_IRRIGATION needs 400 liters or more; the sum that leads there is drawn in
\* info mode, where the liters are reported and no watering follows
EvapSumsFor(reporting) == IF reporting THEN { R(2), R(20) } ELSE { R(2) }
RainSums == { R(0), R(2), R(3) }
\* numpy.sum(load_irrigated(...)) of a zone, mm
WaterSums == { R(0), R(1) }

\* args.zones: the default string 'all', or the list argparse builds (nargs='*')
ZoneArgs == { [all |-> TRUE, words |-> << >>],
              [all |-> FALSE, words |-> <<"grass">>],
              [all |-> FALSE, words |-> <<"side", "sprinkler">>],
              [all |-> FALSE, words |-> <<"grass", "front">>] }

\* a NULL of the archive (None in the row the cursor yields); the readings of the
\* model are positive
NULL == -1

\* rows the cursor of load_evaporation may yield
MaxRows == 3

\* the fields of a row that are NULL: none, one field anywhere in the row, and the
\* patterns of the rows quoted above the query
NullSets == { {}, {1}, {2}, {3}, {4}, {5}, {1, 2}, {1, 2, 4} }

\* the k-th row of the archive: row[0] is its time, row[1] .. row[5] are outHumidity,
\* outTemp, pressure, radiation and rain; every reading of the row holds k, so that
\* a value says which row it came from
Row(k, nulls) == [f \in 0..5 |-> IF f \in nulls THEN NULL ELSE k]

Archives ==
  UNION { { [k \in 1..n |-> Row(k, pattern[k])] : pattern \in [1..n -> NullSets] } :
          n \in 0..MaxRows }

\* Timer objects of a run of the emulated sensor
MaxTimers == 3

\* pulses and getFlowRate calls of a run of the flow meter
MaxPulses == 3
MaxPolls == 2

\* seconds from one pulse of the sensor to the next: the 0.02 s of the emulated
\* timer, half a second, and gaps of 2 s and more
Gaps == { << 1, 50 >>, << 1, 2 >>, R(2), R(3) }

\* pulses per second per liter per minute: "hertz / 7.5"
PULSES_PER_LPM == << 15, 2 >>

\* numpy.average of an empty array
NaN == << 1, 0 >>

VARIABLES
  pc,                   \* where main is: "main", "zones", a sleep, "exit"
  days, amount, info, emulating, loop_seconds, zones_to_water,  \* parse_arguments
  flow_required,        \* zone -> IrrigationZone.flow_required
  evapSum, rainSum,
  zone,                 \* index of the zone of "for zone in zones"
  source_index,         \* -1 before "source_index = 0"
  net_evap, liters_per_m2, liters,
  actual_liters, actual_liters_per_m2,
  duration, flow_rate, previous_flow_rate,
  since_previous,       \* seconds from previous_time to the start of the current sleep
  since_current,        \* seconds from current_time to the start of the current sleep
  zone_valve,           \* zone -> TRUE when the zone's valve is open
  source_valve,         \* source index -> TRUE when the source's valve is open
  callback,             \* zone -> TRUE while its (real or emulated) pulse callback is set
  irrigated_liters,     \* zone -> IrrigationZone.irrigated_liters
  ledger,               \* rows inserted into irrigated by save_irrigated, in order
  exit_code,            \* "running", or how the process ended
  state,                \* state of the watering session of session_zone (spec 4.4)
  session_zone,         \* the zone of the latest watering session, 0 before the first
  session_source,       \* source_index when that session opened its valves
  steady,               \* TRUE while all flow readings of that session were equal
  cursor,               \* the rows the cursor of load_evaporation yields
  fetched,              \* rows "for row in cursor" has gone through
  humidityDay, tempDay, pressureDay, radiationDay, rainDay,
  last_time, last_flow_rates, last_flow_rate, average_flow_rate,  \* FlowMeter
  now,                  \* datetime.now(), seconds from the meter's construction
  pulse_pc,             \* where pulseCallback is: "idle", "store"
  current_time, diff,   \* locals of pulseCallback
  new_rates,            \* the array pulseCallback is about to assign
  poll_pc,              \* where getFlowRate is: "idle", "average", "clear"
  stored_values,        \* local of getFlowRate
  pulses, polls,        \* pulseCallback and getFlowRate calls so far
  averaged,             \* pulses whose rate the running getFlowRate call averaged
  seen,                 \* pulse -> getFlowRate results its rate is part of
  dropped,              \* pulses a clear of getFlowRate took away unaveraged
  window,               \* gaps of the pulses ended since getFlowRate last returned
  raced,                \* a call began while the other context was in its call
  gapless,              \* every pulse so far came less than 2 s after the one before
  quiet,                \* "no", "yes" once a pulse 2 s or more after the one before
                        \* has ended, and "polling" while a getFlowRate call that
                        \* began then runs; "no" again when a pulse begins
  is_running, _timer,   \* RepeatedTimer: the flag, and the Timer it holds (0: None)
  next_call,            \* intervals from start() to the next call
  threads,              \* Timer -> "none", "waiting", "cancelled", "done", or where
                        \* its thread is in _run: "run", "cont", "new", "set", "function"
  timer_pc,             \* the main thread: "new", "started", "stop", "stopped"
  invoked,              \* Timers whose thread has called the function
  late,                 \* Timers whose thread called it after stop() had returned
  last_poll             \* what the step just taken decided, when it was a monitoring poll

vars == << pc, days, amount, info, emulating, loop_seconds, zones_to_water,
           flow_required, evapSum, rainSum, zone, source_index,
           net_evap, liters_per_m2, liters, actual_liters, actual_liters_per_m2,
           duration, flow_rate, previous_flow_rate, since_previous, since_current,
           zone_valve, source_valve, callback, irrigated_liters, ledger,
           exit_code, state, session_zone, session_source, steady, last_poll,
           cursor, fetched, humidityDay, tempDay, pressureDay, radiationDay, rainDay,
           last_time, last_flow_rates, last_flow_rate, average_flow_rate, now,
           pulse_pc, current_time, diff, new_rates, poll_pc, stored_values, pulses,
           polls, averaged, seen, dropped, window, raced, gapless, quiet,
           is_running, _timer, next_call, threads, timer_pc, invoked, late >>

args == << days, amount, info, emulating, loop_seconds, zones_to_water, flow_required >>
weather == << evapSum, rainSum >>
budget == << net_evap, liters_per_m2, liters >>
valves == << zone_valve, source_valve >>
clock == << since_previous, since_current >>
session == << session_zone, session_source >>
archive == << cursor, fetched, humidityDay, tempDay, pressureDay, radiationDay, rainDay >>
meter == << last_time, last_flow_rates, last_flow_rate, average_flow_rate, now,
            pulse_pc, current_time, diff, new_rates, poll_pc, stored_values, pulses,
            polls, averaged, seen, dropped, window, raced, gapless, quiet >>

Zones == 1..NZones
Sources == 0..(NSources - 1)
Sleeps == { "prime_sleep", "monitor_sleep", "switch_settle", "switch_prime", "done_settle" }

\* no monitoring poll was the step just taken
NoPoll == [polled |-> FALSE, zone |-> 0, before |-> Unset, reading |-> Unset,
           switched |-> FALSE, even |-> FALSE]

(***************************************************************************)
(* parse_arguments and the state of main before its first statement.       *)
(***************************************************************************)
InitWith(required) ==
  /\ pc = "main"
  /\ \E run \in ParsedRuns : days = run[1] /\ amount = run[2] /\ loop_seconds = run[3]
  /\ info \in BOOLEAN
  /\ emulating \in BOOLEAN
  /\ info => emulating
  /\ zones_to_water \in ZoneArgs
  /\ flow_required = required
  /\ evapSum = Unset /\ rainSum = Unset
  /\ zone = 0
  /\ source_index = -1
  /\ net_evap = Unset /\ liters_per_m2 = Unset /\ liters = Unset
  /\ actual_liters = Unset /\ actual_liters_per_m2 = Unset
  /\ duration = Unset /\ flow_rate = Unset /\ previous_flow_rate = Unset
  /\ since_previous = R(0) /\ since_current = R(0)
  /\ zone_valve = [z \in Zones |-> FALSE]
  /\ source_valve = [s \in Sources |-> FALSE]
  /\ callback = [z \in Zones |-> FALSE]
  /\ irrigated_liters = [z \in Zones |-> R(0)]
  /\ ledger = << >>
  /\ exit_code = "running"
  /\ state = "Idle"
  /\ session_zone = 0 /\ session_source = -1
  /\ steady = TRUE
  /\ last_poll = NoPoll

\* load_evaporation before its loop; a run of Spec draws the sums of the window in
\* StartUp and goes through no row
NoRows ==
  /\ fetched = 0
  /\ humidityDay = << >> /\ tempDay = << >> /\ pressureDay = << >>
  /\ radiationDay = << >> /\ rainDay = << >>

repeated_timer == << is_running, _timer, next_call, threads, timer_pc, invoked, late >>

\* FlowMeter.__init__, and no pulse and no getFlowRate call yet; a run of Spec
\* draws the readings of get_flow_rate in its polls
NewFlowMeter ==
  /\ now = R(0)
  /\ last_time = now
  /\ last_flow_rates = << >>
  /\ last_flow_rate = R(0)
  /\ average_flow_rate = R(0)
  /\ pulse_pc = "idle" /\ current_time = Unset /\ diff = Unset /\ new_rates = << >>
  /\ poll_pc = "idle" /\ stored_values = 0
  /\ pulses = 0 /\ polls = 0
  /\ averaged = {}
  /\ seen = [k \in 1..MaxPulses |-> 0]
  /\ dropped = {}
  /\ window = << >>
  /\ raced = FALSE
  /\ gapless = TRUE
  /\ quiet = "no"

\* RepeatedTimer.__init__: no Timer and not running; start() not called yet
NewRepeatedTimer ==
  /\ is_running = FALSE
  /\ _timer = 0
  /\ next_call = 0
  /\ threads = [t \in 1..MaxTimers |-> "none"]
  /\ timer_pc = "new"
  /\ invoked = {}
  /\ late = {}

\* the zones as main constructs them
Init ==
  /\ InitWith([z \in Zones |-> ZoneMinFlow[z]])
  /\ cursor = << >> /\ NoRows
  /\ NewFlowMeter
  /\ NewRepeatedTimer

(***************************************************************************)
(* The pieces of code the steps of main share.                             *)
(***************************************************************************)
\* duration = remaining / max(flow_rate, 1) * 60
Duration(remaining, rate) == RMul[RDiv[remaining, RMax[rate, R(1)]], R(60)]

\* a variant that leaves the priming wait out of every credit
CreditNet(seconds, rate) == RMul[RDiv[RSub[seconds, R(PRIME_WAIT)], R(60)], rate]

\* actual_liters += seconds / 60 * flow_rate
Credit(seconds, rate) == RMul[RDiv[seconds, R(60)], rate]

\* sleep(min(loop_seconds, max(duration, 5)))
SleepTime(d) == RMin[R(loop_seconds), RMax[d, R(MIN_SLEEP)]]

\* a variant that switches on a single low reading
TooLowOnce(rate, previous, required) == RLt[rate, required]

\* flow_rate < zone.get_flow_required() and previous_flow_rate < zone.get_flow_required()
TooLow(rate, previous, required) == RLt[rate, required] /\ RLt[previous, required]

\* round(x, 1) of an exact x >= 0: to the nearest tenth, a tie to the even tenth
Round1(x) ==
  LET n == 10 * x[1]
      f == n \div x[2]
      r == n - f * x[2]
      up == 2 * r > x[2] \/ (2 * r = x[2] /\ f % 2 = 1)
  IN  Norm[IF up THEN f + 1 ELSE f, 10]

\* save_irrigated: one INSERT when watering_mm > 0.0, nothing otherwise
save_irrigated(rows, z, watering_mm) ==
  IF RLt[R(0), watering_mm]
    THEN Append(rows, [zone |-> z, watered |-> Round1(watering_mm)])
    ELSE rows

\* the for loop over zones_to_water: a zone is skipped when some word is not in its name
Selected(z) ==
  zones_to_water.all \/ \A i \in DOMAIN zones_to_water.words : NameContains(z, zones_to_water.words[i])

\* a variant with the rainfall added to the shortage
NetRainAdded(e, shadow, r, w) == RSub[RAdd[RMul[e, shadow], r], w]

\* evapSum * zone.get_shadow() - rainSum - waterSum
Net(e, shadow, r, w) == RSub[RSub[RMul[e, shadow], r], w]

\* net_evap = evapSum * zone.get_shadow() - rainSum - waterSum
NetEvap(z, waterSum) == Net(evapSum, ZoneShadow[z], rainSum, waterSum)

\* if (net_evap > MAX_IRRIGATION): liters_per_m2 = MAX_IRRIGATION else: liters_per_m2 = net_evap
Capped(net) == IF RLt[R(MAX_IRRIGATION), net] THEN R(MAX_IRRIGATION) ELSE net

\* the depth main waters a zone with in deficit mode, 0 for "No need for irrigation"
TargetDepth(e, shadow, r, w) ==
  IF RLe[Net(e, shadow, r, w), R(1)] THEN R(0) ELSE Capped(Net(e, shadow, r, w))

RECURSIVE SumLiters(_, _)
SumLiters(f, n) == IF n = 0 THEN R(0) ELSE RAdd[SumLiters(f, n - 1), f[n]]

RECURSIVE SumDepth(_, _)
SumDepth(f, n) ==
  IF n = 0 THEN R(0) ELSE RAdd[SumDepth(f, n - 1), RDiv[f[n], R(ZoneArea[n])]]

\* exit(code), or the end of main
Exit(code) == pc' = "exit" /\ exit_code' = code

\* logger.info("Ended zone ...", actual_liters_per_m2, ...) and exit(-1): the name is
\* assigned in the "not emulating" branch only; unassigned, the read raises
ReportAndExit ==
  Exit(IF actual_liters_per_m2' = Unset THEN "UnboundLocalError" ELSE "-1")

(***************************************************************************)
(* main, before the loop over the zones.                                   *)
(***************************************************************************)
\* a variant that goes on when the rainfall equals the evaporation
StartUpMoreRain ==
  /\ pc = "main"
  /\ IF days > 0
       THEN \E e \in EvapSumsFor(info), r \in RainSums :
              /\ evapSum' = RMul[e, R(EVAP_FACTOR)]
              /\ rainSum' = r
              /\ IF RLt[evapSum', rainSum']
                   THEN \* "No irrigation needed", exit(0)
                        /\ Exit("0")
                        /\ UNCHANGED << zone, source_index >>
                   ELSE /\ pc' = "zones" /\ zone' = 1
                        /\ source_index' = IF info THEN source_index ELSE 0
                        /\ UNCHANGED exit_code
       ELSE /\ pc' = "zones" /\ zone' = 1
            /\ source_index' = IF info THEN source_index ELSE 0
            /\ UNCHANGED << weather, exit_code >>
  /\ last_poll' = NoPoll
  /\ UNCHANGED << archive, meter, repeated_timer, args, budget, actual_liters, actual_liters_per_m2, duration, flow_rate,
                  previous_flow_rate, clock, valves, callback, irrigated_liters, ledger,
                  state, session, steady >>

\* main up to the loop over the zones: the sums of the window when days > 0, "No
\* irrigation needed" and exit(0) when rainSum >= evapSum, the sources when not info
StartUp ==
  /\ pc = "main"
  /\ IF days > 0
       THEN \E e \in EvapSumsFor(info), r \in RainSums :
              /\ evapSum' = RMul[e, R(EVAP_FACTOR)]
              /\ rainSum' = r
              /\ IF RLe[evapSum', rainSum']
                   THEN \* "No irrigation needed", exit(0)
                        /\ Exit("0")
                        /\ UNCHANGED << zone, source_index >>
                   ELSE /\ pc' = "zones" /\ zone' = 1
                        /\ source_index' = IF info THEN source_index ELSE 0
                        /\ UNCHANGED exit_code
       ELSE /\ pc' = "zones" /\ zone' = 1
            /\ source_index' = IF info THEN source_index ELSE 0
            /\ UNCHANGED << weather, exit_code >>
  /\ last_poll' = NoPoll
  /\ UNCHANGED << archive, meter, repeated_timer, args, budget, actual_liters, actual_liters_per_m2, duration, flow_rate,
                  previous_flow_rate, clock, valves, callback, irrigated_liters, ledger,
                  state, session, steady >>

(***************************************************************************)
(* The top of "for zone in zones", up to the first sleep.                  *)
(***************************************************************************)
\* the zone is not among zones_to_water: continue
ZoneFiltered ==
  /\ pc = "zones" /\ zone \in Zones
  /\ ~Selected(zone)
  /\ zone' = zone + 1
  /\ last_poll' = NoPoll
  /\ UNCHANGED << pc, archive, meter, repeated_timer, args, weather, source_index, budget, actual_liters,
                  actual_liters_per_m2, duration, flow_rate, previous_flow_rate, clock,
                  valves, callback, irrigated_liters, ledger, exit_code, state,
                  session, steady >>

\* days > 0 and net_evap <= 1: "No need for irrigation", continue
ZoneNoNeed ==
  /\ pc = "zones" /\ zone \in Zones
  /\ Selected(zone)
  /\ days > 0
  /\ \E w \in WaterSums :
       /\ RLe[NetEvap(zone, w), R(1)]
       /\ net_evap' = NetEvap(zone, w)
  /\ zone' = zone + 1
  /\ last_poll' = NoPoll
  /\ UNCHANGED << pc, archive, meter, repeated_timer, args, weather, source_index, liters_per_m2, liters, actual_liters,
                  actual_liters_per_m2, duration, flow_rate, previous_flow_rate, clock,
                  valves, callback, irrigated_liters, ledger, exit_code, state,
                  session, steady >>

\* the depth of a zone that is not skipped: net_evap' and liters_per_m2' are set
ZoneDepth ==
  IF days > 0
    THEN \E w \in WaterSums :
           /\ ~RLe[NetEvap(zone, w), R(1)]
           /\ net_evap' = NetEvap(zone, w)
           /\ liters_per_m2' = Capped(net_evap')
    ELSE /\ liters_per_m2' = amount
         /\ UNCHANGED net_evap

\* info: liters = zone.get_area() * net_evap, reported and stored, continue;
\* with a fixed amount net_evap was never assigned and the read raises
ZoneInfo ==
  /\ pc = "zones" /\ zone \in Zones
  /\ Selected(zone)
  /\ info
  /\ ZoneDepth
  /\ IF net_evap' = Unset
       THEN /\ Exit("UnboundLocalError")
            /\ UNCHANGED << zone, liters, irrigated_liters >>
       ELSE /\ liters' = RMul[R(ZoneArea[zone]), net_evap']
            /\ irrigated_liters' = [irrigated_liters EXCEPT ![zone] = liters']
            /\ zone' = zone + 1
            /\ UNCHANGED << pc, exit_code >>
  /\ last_poll' = NoPoll
  /\ UNCHANGED << archive, meter, repeated_timer, args, weather, source_index, actual_liters, actual_liters_per_m2,
                  duration, flow_rate, previous_flow_rate, clock, valves, callback,
                  ledger, state, session, steady >>

\* a variant that starts every zone on the first source
ZoneOpenFirstSource ==
  /\ pc = "zones" /\ zone \in Zones
  /\ Selected(zone)
  /\ ~info
  /\ ZoneDepth
  /\ liters' = RMul[R(ZoneArea[zone]), liters_per_m2']
  /\ callback' = [callback EXCEPT ![zone] = TRUE]
  /\ IF ~emulating
       THEN /\ zone_valve' = [zone_valve EXCEPT ![zone] = TRUE]
            /\ source_valve' = [source_valve EXCEPT ![0] = TRUE]
       ELSE UNCHANGED valves
  /\ actual_liters' = R(0)
  /\ since_previous' = R(0) /\ since_current' = R(0)
  /\ pc' = "prime_sleep"
  /\ state' = "Priming" /\ session_zone' = zone /\ session_source' = 0
  /\ steady' = TRUE
  /\ source_index' = 0
  /\ last_poll' = NoPoll
  \* duration, flow_rate and previous_flow_rate are assigned after the first sleep,
  \* before they are read: the values the previous zone left in them are forgotten
  /\ duration' = Unset /\ flow_rate' = Unset /\ previous_flow_rate' = Unset
  /\ UNCHANGED << archive, meter, repeated_timer, args, weather, zone, actual_liters_per_m2,
                  irrigated_liters, ledger, exit_code >>

\* not info: liters = area * liters_per_m2, set the callback, open the valves,
\* start_time = now, actual_liters = 0.0, sleep(10)
ZoneOpen ==
  /\ pc = "zones" /\ zone \in Zones
  /\ Selected(zone)
  /\ ~info
  /\ ZoneDepth
  /\ liters' = RMul[R(ZoneArea[zone]), liters_per_m2']
  /\ callback' = [callback EXCEPT ![zone] = TRUE]
  /\ IF ~emulating
       THEN /\ zone_valve' = [zone_valve EXCEPT ![zone] = TRUE]
            /\ source_valve' = [source_valve EXCEPT ![source_index] = TRUE]
       ELSE UNCHANGED valves
  /\ actual_liters' = R(0)
  /\ since_previous' = R(0) /\ since_current' = R(0)
  /\ pc' = "prime_sleep"
  /\ state' = "Priming" /\ session_zone' = zone /\ session_source' = source_index
  /\ steady' = TRUE
  /\ last_poll' = NoPoll
  \* duration, flow_rate and previous_flow_rate are assigned after the first sleep,
  \* before they are read: the values the previous zone left in them are forgotten
  /\ duration' = Unset /\ flow_rate' = Unset /\ previous_flow_rate' = Unset
  /\ UNCHANGED << archive, meter, repeated_timer, args, weather, zone, source_index, actual_liters_per_m2,
                  irrigated_liters, ledger, exit_code >>

(***************************************************************************)
(* The watering of one zone.                                               *)
(***************************************************************************)
\* a variant that closes the zone valve and leaves the source valve as it is
CloseAndSaveZoneOnly(close_source) ==
  /\ zone_valve' = [zone_valve EXCEPT ![zone] = FALSE]
  /\ source_valve' = source_valve
  /\ irrigated_liters' = [irrigated_liters EXCEPT ![zone] = actual_liters]
  /\ actual_liters_per_m2' = RDiv[actual_liters, R(ZoneArea[zone])]
  /\ ledger' = save_irrigated(ledger, zone, actual_liters_per_m2')
  /\ UNCHANGED callback

\* not emulating, on an interruption or when no source is left: close the zone valve
\* (and, in the except clauses, the source valve), set_irrigated_liters,
\* actual_liters_per_m2, save_irrigated, GPIO.cleanup()
CloseAndSave(close_source) ==
  /\ zone_valve' = [zone_valve EXCEPT ![zone] = FALSE]
  /\ source_valve' = IF close_source
                       THEN [source_valve EXCEPT ![source_index] = FALSE]
                       ELSE source_valve
  /\ irrigated_liters' = [irrigated_liters EXCEPT ![zone] = actual_liters]
  /\ actual_liters_per_m2' = RDiv[actual_liters, R(ZoneArea[zone])]
  /\ ledger' = save_irrigated(ledger, zone, actual_liters_per_m2')
  /\ UNCHANGED callback

\* a variant that stores the emulated watering in the ledger
StopEmulationSaves ==
  /\ callback' = [callback EXCEPT ![zone] = FALSE]
  /\ ledger' = save_irrigated(ledger, zone, RDiv[actual_liters, R(ZoneArea[zone])])
  /\ UNCHANGED << valves, irrigated_liters, actual_liters_per_m2 >>

\* emulating, same places: zone.clear_emulated_pulse_callback()
StopEmulation ==
  /\ callback' = [callback EXCEPT ![zone] = FALSE]
  /\ UNCHANGED << valves, irrigated_liters, actual_liters_per_m2, ledger >>

\* "while duration > 0" is left with delivered liters done: "Done watering this zone":
\* not emulating, close both valves and sleep(15); emulating, finish the zone at once
LeaveLoop(done) ==
  /\ state' = "Complete"
  /\ IF ~emulating
       THEN /\ zone_valve' = [zone_valve EXCEPT ![zone] = FALSE]
            /\ source_valve' = [source_valve EXCEPT ![source_index] = FALSE]
            /\ pc' = "done_settle"
            /\ UNCHANGED << zone, callback, irrigated_liters, actual_liters_per_m2 >>
       ELSE /\ callback' = [callback EXCEPT ![zone] = FALSE]
            /\ irrigated_liters' = [irrigated_liters EXCEPT ![zone] = done]
            /\ actual_liters_per_m2' = RDiv[done, R(ZoneArea[zone])]
            /\ zone' = zone + 1
            /\ pc' = "zones"
            /\ UNCHANGED valves
  /\ UNCHANGED << ledger, exit_code >>

\* after sleep(10): the first reading, actual_liters += 10 / 60 * flow_rate,
\* duration = liters / max(flow_rate, 1) * 60, previous_time = start_time
PrimeDone ==
  /\ pc = "prime_sleep"
  /\ \E f \in FlowReadingsFor(flow_required[zone]) :
       /\ flow_rate' = f
       /\ actual_liters' = RAdd[actual_liters, Credit(R(PRIME_WAIT), f)]
       /\ duration' = Duration(liters, f)
       /\ previous_flow_rate' = f
  /\ steady' = TRUE
  /\ since_previous' = RAdd[since_previous, R(PRIME_WAIT)]
  /\ UNCHANGED since_current
  /\ IF RLt[R(0), duration']
       THEN /\ pc' = "monitor_sleep"
            /\ state' = "Monitoring"
            /\ UNCHANGED << zone, valves, callback, irrigated_liters,
                            actual_liters_per_m2, ledger, exit_code >>
       ELSE LeaveLoop(actual_liters')
  /\ last_poll' = NoPoll
  /\ UNCHANGED << archive, meter, repeated_timer, args, weather, source_index, budget, session >>

\* a variant in which "No more sources" ends the zone only: the for loop goes on
NextSourceContinue(sp, sc) ==
  /\ since_previous' = sp /\ since_current' = sc
  /\ IF source_index < NSources - 1
       THEN /\ source_index' = source_index + 1
            /\ source_valve' = IF ~emulating
                                 THEN [source_valve EXCEPT ![source_index'] = TRUE]
                                 ELSE source_valve
            /\ pc' = "switch_prime"
            /\ state' = "Priming"
            /\ UNCHANGED << zone, zone_valve, callback, irrigated_liters,
                            actual_liters_per_m2, ledger, exit_code >>
       ELSE /\ IF ~emulating THEN CloseAndSave(FALSE) ELSE StopEmulation
            /\ pc' = "zones" /\ zone' = zone + 1
            /\ state' = "Failed"
            /\ UNCHANGED << source_index, exit_code >>

\* a variant that goes back to the first source after the last one
NextSourceWraps(sp, sc) ==
  /\ since_previous' = sp /\ since_current' = sc
  /\ IF TRUE
       THEN /\ source_index' = (source_index + 1) % NSources
            /\ source_valve' = IF ~emulating
                                 THEN [source_valve EXCEPT ![source_index'] = TRUE]
                                 ELSE source_valve
            /\ pc' = "switch_prime"
            /\ state' = "Priming"
            /\ UNCHANGED << zone, zone_valve, callback, irrigated_liters,
                            actual_liters_per_m2, ledger, exit_code >>
       ELSE /\ IF ~emulating THEN CloseAndSave(FALSE) ELSE StopEmulation
            /\ ReportAndExit
            /\ state' = "Failed"
            /\ UNCHANGED << zone, source_index >>

\* lines 765-795: the next source, or "No more sources" and exit(-1);
\* sp and sc are the seconds since previous_time and since current_time
NextSource(sp, sc) ==
  /\ since_previous' = sp /\ since_current' = sc
  /\ IF source_index < NSources - 1
       THEN /\ source_index' = source_index + 1
            /\ source_valve' = IF ~emulating
                                 THEN [source_valve EXCEPT ![source_index'] = TRUE]
                                 ELSE source_valve
            /\ pc' = "switch_prime"
            /\ state' = "Priming"
            /\ UNCHANGED << zone, zone_valve, callback, irrigated_liters,
                            actual_liters_per_m2, ledger, exit_code >>
       ELSE /\ IF ~emulating THEN CloseAndSave(FALSE) ELSE StopEmulation
            /\ ReportAndExit
            /\ state' = "Failed"
            /\ UNCHANGED << zone, source_index >>

\* a variant that leaves the starved source open while it goes to the next one
SwitchSourceKeepsOpen(current_seconds) ==
  IF ~emulating
    THEN /\ pc' = "switch_settle"
         /\ state' = "Switching"
         /\ since_previous' = current_seconds /\ since_current' = R(0)
         /\ UNCHANGED << zone, source_index, valves, callback, irrigated_liters,
                         actual_liters_per_m2, ledger, exit_code >>
    ELSE NextSource(current_seconds, R(0))

\* a monitoring poll that finds the flow too low: close the source valve and
\* sleep(15) when not emulating, else go on to the next source at once
SwitchSource(current_seconds) ==
  IF ~emulating
    THEN /\ source_valve' = [source_valve EXCEPT ![source_index] = FALSE]
         /\ pc' = "switch_settle"
         /\ state' = "Switching"
         /\ since_previous' = current_seconds /\ since_current' = R(0)
         /\ UNCHANGED << zone, source_index, zone_valve, callback, irrigated_liters,
                         actual_liters_per_m2, ledger, exit_code >>
    ELSE NextSource(current_seconds, R(0))

\* after the monitoring sleep: lines 751-830
MonitorPoll ==
  /\ pc = "monitor_sleep"
  /\ \E f \in FlowReadingsFor(flow_required[zone]) :
       LET current_seconds == RAdd[since_previous, SleepTime(duration)]
           low == TooLow(f, previous_flow_rate, flow_required[zone])
       IN  /\ flow_rate' = f
           /\ steady' = (steady /\ f = flow_rate)
           /\ last_poll' = [polled |-> TRUE, zone |-> zone, before |-> flow_rate,
                            reading |-> f, switched |-> low,
                            even |-> last_poll.polled /\ ~last_poll.even]
           /\ IF low
                THEN /\ SwitchSource(current_seconds)
                     /\ UNCHANGED << actual_liters, duration, previous_flow_rate >>
                ELSE /\ actual_liters' = RAdd[actual_liters, Credit(current_seconds, f)]
                     /\ duration' = Duration(RSub[liters, actual_liters'], f)
                     /\ UNCHANGED source_index
                     /\ IF RLt[R(0), duration']
                          THEN /\ since_previous' = R(0) /\ since_current' = R(0)
                               /\ previous_flow_rate' = f
                               /\ UNCHANGED << pc, state, zone, valves, callback,
                                               irrigated_liters, actual_liters_per_m2,
                                               ledger, exit_code >>
                          ELSE /\ LeaveLoop(actual_liters')
                               /\ UNCHANGED << clock, previous_flow_rate >>
  /\ UNCHANGED << archive, meter, repeated_timer, args, weather, budget, session >>

\* a variant that goes to the next source with no wait after the close
SwitchSettleDoneAtOnce ==
  /\ pc = "switch_settle"
  /\ NextSource(since_previous, since_current)
  /\ last_poll' = NoPoll
  /\ UNCHANGED << archive, meter, repeated_timer, args, weather, budget, actual_liters, duration, flow_rate,
                  previous_flow_rate, session, steady >>

\* after the sleep(15) that follows closing the source valve (not emulating)
SwitchSettleDone ==
  /\ pc = "switch_settle"
  /\ NextSource(RAdd[since_previous, R(SETTLE_WAIT)], RAdd[since_current, R(SETTLE_WAIT)])
  /\ last_poll' = NoPoll
  /\ UNCHANGED << archive, meter, repeated_timer, args, weather, budget, actual_liters, duration, flow_rate,
                  previous_flow_rate, session, steady >>

\* a variant that plans the whole target again on the next source
SwitchPrimeDoneFullTarget ==
  /\ pc = "switch_prime"
  /\ \E f \in FlowReadingsFor(flow_required[zone]) :
       /\ flow_rate' = f
       /\ steady' = (steady /\ f = flow_rate)
       /\ duration' = Duration(liters, f)
       /\ IF RLt[R(0), duration']
            THEN /\ since_previous' = RAdd[since_current, R(PRIME_WAIT)]
                 /\ since_current' = R(0)
                 /\ previous_flow_rate' = f
                 /\ pc' = "monitor_sleep"
                 /\ state' = "Monitoring"
                 /\ UNCHANGED << zone, valves, callback, irrigated_liters,
                                 actual_liters_per_m2, ledger, exit_code >>
            ELSE /\ LeaveLoop(actual_liters)
                 /\ UNCHANGED << clock, previous_flow_rate >>
  /\ last_poll' = NoPoll
  /\ UNCHANGED << archive, meter, repeated_timer, args, weather, source_index, budget, actual_liters, session >>

\* after the sleep(10) that follows opening the next source: lines 815-829
SwitchPrimeDone ==
  /\ pc = "switch_prime"
  /\ \E f \in FlowReadingsFor(flow_required[zone]) :
       /\ flow_rate' = f
       /\ steady' = (steady /\ f = flow_rate)
       /\ duration' = Duration(RSub[liters, actual_liters], f)
       /\ IF RLt[R(0), duration']
            THEN /\ since_previous' = RAdd[since_current, R(PRIME_WAIT)]
                 /\ since_current' = R(0)
                 /\ previous_flow_rate' = f
                 /\ pc' = "monitor_sleep"
                 /\ state' = "Monitoring"
                 /\ UNCHANGED << zone, valves, callback, irrigated_liters,
                                 actual_liters_per_m2, ledger, exit_code >>
            ELSE /\ LeaveLoop(actual_liters)
                 /\ UNCHANGED << clock, previous_flow_rate >>
  /\ last_poll' = NoPoll
  /\ UNCHANGED << archive, meter, repeated_timer, args, weather, source_index, budget, actual_liters, session >>

\* after the sleep(15) of "Done watering this zone" (not emulating): lines 838-853
DoneSettleDone ==
  /\ pc = "done_settle"
  /\ callback' = [callback EXCEPT ![zone] = FALSE]
  /\ irrigated_liters' = [irrigated_liters EXCEPT ![zone] = actual_liters]
  /\ actual_liters_per_m2' = RDiv[actual_liters, R(ZoneArea[zone])]
  /\ ledger' = save_irrigated(ledger, zone, actual_liters_per_m2')
  /\ zone' = zone + 1
  /\ pc' = "zones"
  /\ last_poll' = NoPoll
  /\ UNCHANGED << archive, meter, repeated_timer, args, weather, source_index, budget, actual_liters, duration, flow_rate,
                  previous_flow_rate, clock, valves, exit_code, state, session, steady >>

\* KeyboardInterrupt or SystemExit in a sleep that stands in a try: the except clause
InterruptHandled ==
  /\ pc \in { "prime_sleep", "monitor_sleep", "switch_prime" }
  /\ IF ~emulating THEN CloseAndSave(TRUE) ELSE StopEmulation
  /\ IF pc = "monitor_sleep" THEN ReportAndExit ELSE Exit("-1")
  /\ state' = "Interrupted"
  /\ last_poll' = NoPoll
  /\ UNCHANGED << archive, meter, repeated_timer, args, weather, zone, source_index, budget, actual_liters, duration,
                  flow_rate, previous_flow_rate, clock, session, steady >>

\* KeyboardInterrupt or SystemExit in a sleep(15), which stands in no try: the
\* exception leaves main and the process ends with the GPIO outputs as they are
InterruptUnhandled ==
  /\ pc \in { "switch_settle", "done_settle" }
  /\ Exit("SystemExit")
  /\ state' = IF pc = "switch_settle" THEN "Interrupted" ELSE state
  /\ last_poll' = NoPoll
  /\ UNCHANGED << archive, meter, repeated_timer, args, weather, zone, source_index, budget, actual_liters,
                  actual_liters_per_m2, duration, flow_rate, previous_flow_rate, clock,
                  valves, callback, irrigated_liters, ledger, session, steady >>

\* a variant whose total is the liters of the last zone
TotalsLastZone ==
  /\ pc = "zones" /\ zone = NZones + 1
  /\ actual_liters' = irrigated_liters[NZones]
  /\ actual_liters_per_m2' = SumDepth(irrigated_liters, NZones)
  /\ Exit("done")
  /\ last_poll' = NoPoll
  /\ UNCHANGED << archive, meter, repeated_timer, args, weather, zone, source_index, budget, duration, flow_rate,
                  previous_flow_rate, clock, valves, callback, irrigated_liters, ledger,
                  state, session, steady >>

\* "Done iterating over all zones": the totals, GPIO.cleanup(), the end of main
Totals ==
  /\ pc = "zones" /\ zone = NZones + 1
  /\ actual_liters' = SumLiters(irrigated_liters, NZones)
  /\ actual_liters_per_m2' = SumDepth(irrigated_liters, NZones)
  /\ Exit("done")
  /\ last_poll' = NoPoll
  /\ UNCHANGED << archive, meter, repeated_timer, args, weather, zone, source_index, budget, duration, flow_rate,
                  previous_flow_rate, clock, valves, callback, irrigated_liters, ledger,
                  state, session, steady >>

\* the steps main takes by itself
Step ==
  \/ StartUp
  \/ ZoneFiltered
  \/ ZoneNoNeed
  \/ ZoneInfo
  \/ ZoneOpen
  \/ PrimeDone
  \/ MonitorPoll
  \/ SwitchSettleDone
  \/ SwitchPrimeDone
  \/ DoneSettleDone
  \/ Totals

\* an external cancellation during a sleep
Interrupt ==
  \/ InterruptHandled
  \/ InterruptUnhandled

Next == Step \/ Interrupt

Spec == Init /\ [][Next]_vars

\* a garden whose first zone is built with the constructor's default flow_required
FairInit ==
  /\ InitWith([z \in Zones |-> IF z = 1 THEN DefaultFlowRequired ELSE ZoneMinFlow[z]])
  /\ cursor = << >> /\ NoRows
  /\ NewFlowMeter
  /\ NewRepeatedTimer

\* main keeps running: a sleep ends and the code after it is executed; a cancellation
\* may come or not
FairSpec == FairInit /\ [][Next]_vars /\ WF_vars(Step)

(***************************************************************************)
(* load_evaporation: the loop over the rows of the weather archive.        *)
(***************************************************************************)
\* the first field of the row float() raises TypeError on, 6 when there is none
FirstNull(row) ==
  IF \E f \in 1..5 : row[f] = NULL
    THEN CHOOSE f \in 1..5 : row[f] = NULL /\ \A g \in 1..(f - 1) : row[g] # NULL
    ELSE 6

\* one turn of "for row in cursor": the appends of the try block in their order, up
\* to the first float(None), which raises TypeError; "except TypeError: continue"
\* leaves the lists as the appends before it made them
ReadRow ==
  /\ pc = "main" /\ days > 0
  /\ fetched < Len(cursor)
  /\ fetched' = fetched + 1
  /\ LET row == cursor[fetched']
         raised == FirstNull(row)
     IN /\ humidityDay' = IF raised > 1 THEN Append(humidityDay, row[1]) ELSE humidityDay
        /\ tempDay' = IF raised > 2 THEN Append(tempDay, row[2]) ELSE tempDay
        /\ pressureDay' = IF raised > 3 THEN Append(pressureDay, row[3] * 100)
                                        ELSE pressureDay
        /\ radiationDay' = IF raised > 4 THEN Append(radiationDay, row[4] * 5 * 60)
                                         ELSE radiationDay
        /\ rainDay' = IF raised > 5 THEN Append(rainDay, row[5]) ELSE rainDay
  /\ UNCHANGED << pc, args, weather, zone, source_index, budget, actual_liters,
                  actual_liters_per_m2, duration, flow_rate, previous_flow_rate, clock,
                  valves, callback, irrigated_liters, ledger, exit_code, state,
                  session, steady, last_poll, cursor, meter, repeated_timer >>

\* a run with a look-back window, at the call of load_evaporation
ArchiveInit ==
  /\ InitWith([z \in Zones |-> ZoneMinFlow[z]])
  /\ days = EVAP_RANGE /\ emulating /\ ~info /\ zones_to_water.all
  /\ cursor \in Archives
  /\ NoRows
  /\ NewFlowMeter
  /\ NewRepeatedTimer

ArchiveNext == ReadRow

ArchiveSpec == ArchiveInit /\ [][ArchiveNext]_vars

\* the loop is over: the lists are what load_evaporation returns
Returned == pc = "main" /\ days > 0 /\ fetched = Len(cursor)

\* the rows of the archive with no NULL, in their order
RECURSIVE FullRows(_)
FullRows(n) ==
  IF n = 0 THEN << >>
  ELSE IF FirstNull(cursor[n]) = 6 THEN Append(FullRows(n - 1), n) ELSE FullRows(n - 1)

(***************************************************************************)
(* FlowMeter: pulseCallback runs on the thread of the GPIO event (or of    *)
(* the emulation timer), getFlowRate on the thread of main.  Neither takes *)
(* a lock, so a step of one may come between two statements of the other.  *)
(***************************************************************************)
\* main stands still while the meter is looked at
MainWaits ==
  UNCHANGED << pc, args, weather, zone, source_index, budget, actual_liters,
               actual_liters_per_m2, duration, flow_rate, previous_flow_rate, clock,
               valves, callback, irrigated_liters, ledger, exit_code, state,
               session, steady, last_poll, archive, repeated_timer >>

\* the pulses the rates of an array came from
PulsesOf(rates) == { rates[i].pulse : i \in DOMAIN rates }

RECURSIVE SumRates(_)
SumRates(rates) ==
  IF rates = << >> THEN R(0) ELSE RAdd[Head(rates).rate, SumRates(Tail(rates))]

\* numpy.average(self.last_flow_rates)
Average(rates) ==
  IF rates = << >> THEN NaN ELSE RDiv[SumRates(rates), R(Len(rates))]

\* a variant that takes a gap of exactly 2 s for flow
pulseCallbackComputeLate(gap) ==
  /\ pulse_pc = "idle" /\ pulses < MaxPulses
  /\ now' = RAdd[now, gap]
  /\ current_time' = now'
  /\ diff' = RSub[current_time', last_time]
  /\ pulses' = pulses + 1
  /\ IF RLe[diff', R(2)]
       THEN /\ last_flow_rate' = RDiv[RDiv[R(1), diff'], PULSES_PER_LPM]
            /\ new_rates' = Append(last_flow_rates,
                                   [pulse |-> pulses', rate |-> last_flow_rate'])
       ELSE /\ new_rates' = << >>
            /\ UNCHANGED last_flow_rate
  /\ pulse_pc' = "store"
  /\ raced' = (raced \/ poll_pc # "idle")
  /\ gapless' = (gapless /\ RLt[diff', R(2)])
  /\ quiet' = "no"
  /\ UNCHANGED << last_time, last_flow_rates, average_flow_rate, poll_pc,
                  stored_values, polls, averaged, seen, dropped, window >>
  /\ MainWaits

\* pulseCallback up to the right-hand side of its assignment to last_flow_rates:
\* the time since the last pulse, and for diff < 2 the rate and the array
\* numpy.append builds from the array it reads; an empty array otherwise
pulseCallbackCompute(gap) ==
  /\ pulse_pc = "idle" /\ pulses < MaxPulses
  /\ now' = RAdd[now, gap]
  /\ current_time' = now'
  /\ diff' = RSub[current_time', last_time]
  /\ pulses' = pulses + 1
  /\ IF RLt[diff', R(2)]
       THEN /\ last_flow_rate' = RDiv[RDiv[R(1), diff'], PULSES_PER_LPM]
            /\ new_rates' = Append(last_flow_rates,
                                   [pulse |-> pulses', rate |-> last_flow_rate'])
       ELSE /\ new_rates' = << >>
            /\ UNCHANGED last_flow_rate
  /\ pulse_pc' = "store"
  /\ raced' = (raced \/ poll_pc # "idle")
  /\ gapless' = (gapless /\ RLt[diff', R(2)])
  /\ quiet' = "no"
  /\ UNCHANGED << last_time, last_flow_rates, average_flow_rate, poll_pc,
                  stored_values, polls, averaged, seen, dropped, window >>
  /\ MainWaits

\* the assignment to self.last_flow_rates, and "self.last_time = current_time"
pulseCallbackStore ==
  /\ pulse_pc = "store"
  /\ last_flow_rates' = new_rates
  /\ last_time' = current_time
  /\ pulse_pc' = "idle"
  /\ window' = IF RLt[diff, R(2)] THEN Append(window, diff) ELSE << >>
  /\ quiet' = IF RLt[diff, R(2)] THEN "no" ELSE "yes"
  /\ UNCHANGED << last_flow_rate, average_flow_rate, now, current_time, diff,
                  new_rates, poll_pc, stored_values, pulses, polls, averaged, seen,
                  dropped, raced, gapless >>
  /\ MainWaits

\* getFlowRate: "stored_values = numpy.size(self.last_flow_rates)"
getFlowRateSize ==
  /\ poll_pc = "idle" /\ polls < MaxPolls
  /\ stored_values' = Len(last_flow_rates)
  /\ polls' = polls + 1
  /\ averaged' = {}
  /\ poll_pc' = "average"
  /\ raced' = (raced \/ pulse_pc # "idle")
  /\ quiet' = IF quiet = "yes" THEN "polling" ELSE quiet
  /\ UNCHANGED << last_time, last_flow_rates, last_flow_rate, average_flow_rate, now,
                  pulse_pc, current_time, diff, new_rates, pulses, seen, dropped,
                  window, gapless >>
  /\ MainWaits

\* getFlowRate: the average of the array as it is now, or 0.0
getFlowRateAverage ==
  /\ poll_pc = "average"
  /\ IF stored_values > 0
       THEN /\ average_flow_rate' = Average(last_flow_rates)
            /\ averaged' = PulsesOf(last_flow_rates)
            /\ seen' = [k \in 1..MaxPulses |->
                          IF k \in averaged' THEN seen[k] + 1 ELSE seen[k]]
       ELSE /\ average_flow_rate' = R(0)
            /\ UNCHANGED << averaged, seen >>
  /\ poll_pc' = "clear"
  /\ UNCHANGED << last_time, last_flow_rates, last_flow_rate, now, pulse_pc,
                  current_time, diff, new_rates, stored_values, pulses, polls,
                  dropped, window, raced, gapless, quiet >>
  /\ MainWaits

\* a variant that returns the average and keeps the array
getFlowRateKeep ==
  /\ poll_pc = "clear"
  /\ dropped' = dropped
  /\ last_flow_rates' = last_flow_rates
  /\ poll_pc' = "idle"
  /\ window' = << >>
  /\ quiet' = IF quiet = "polling" THEN "yes" ELSE quiet
  /\ UNCHANGED << last_time, last_flow_rate, average_flow_rate, now, pulse_pc,
                  current_time, diff, new_rates, stored_values, pulses, polls,
                  averaged, seen, raced, gapless >>
  /\ MainWaits

\* getFlowRate: "self.last_flow_rates = numpy.array([])" and the return of
\* average_flow_rate
getFlowRateClear ==
  /\ poll_pc = "clear"
  /\ dropped' = dropped \cup (PulsesOf(last_flow_rates) \ averaged)
  /\ last_flow_rates' = << >>
  /\ poll_pc' = "idle"
  /\ window' = << >>
  /\ quiet' = IF quiet = "polling" THEN "yes" ELSE quiet
  /\ UNCHANGED << last_time, last_flow_rate, average_flow_rate, now, pulse_pc,
                  current_time, diff, new_rates, stored_values, pulses, polls,
                  averaged, seen, raced, gapless >>
  /\ MainWaits

pulseCallback ==
  \/ \E gap \in Gaps : pulseCallbackCompute(gap)
  \/ pulseCallbackStore

getFlowRate ==
  \/ getFlowRateSize
  \/ getFlowRateAverage
  \/ getFlowRateClear

\* a zone of main with its flow meter new
MeterInit ==
  /\ InitWith([z \in Zones |-> ZoneMinFlow[z]])
  /\ days = EVAP_RANGE /\ emulating /\ ~info /\ zones_to_water.all
  /\ cursor = << >> /\ NoRows
  /\ NewFlowMeter
  /\ NewRepeatedTimer

MeterNext == pulseCallback \/ getFlowRate

MeterSpec == MeterInit /\ [][MeterNext]_vars

\* the mean of (1 / dt) / 7.5 over the gaps dt, 0 for no gap
RECURSIVE SumOfRates(_)
SumOfRates(gaps) ==
  IF gaps = << >> THEN R(0)
  ELSE RAdd[RDiv[RDiv[R(1), Head(gaps)], PULSES_PER_LPM], SumOfRates(Tail(gaps))]

MeanRate(gaps) ==
  IF gaps = << >> THEN R(0) ELSE RDiv[SumOfRates(gaps), R(Len(gaps))]

\* pulses a clear of getFlowRate took from the array that no result holds
Lost == { k \in dropped : seen[k] = 0 /\ k \notin PulsesOf(last_flow_rates) }

(***************************************************************************)
(* The RepeatedTimer of a zone: start() and stop() on the main thread and  *)
(* _run on the thread of each threading.Timer, one statement at a time.    *)
(***************************************************************************)
\* main and the flow meter stand still while the timer is looked at
ZoneWaits ==
  UNCHANGED << pc, args, weather, zone, source_index, budget, actual_liters,
               actual_liters_per_m2, duration, flow_rate, previous_flow_rate, clock,
               valves, callback, irrigated_liters, ledger, exit_code, state,
               session, steady, last_poll, archive, meter >>

Timers == 1..MaxTimers

\* Timers that will call _run unless they are cancelled
Scheduled == { t \in Timers : threads[t] = "waiting" }

\* start(): "self.next_call = time.time()" and cont() with no Timer thread yet
start ==
  /\ timer_pc = "new"
  /\ next_call' = IF is_running THEN 0 ELSE 1
  /\ IF is_running
       THEN UNCHANGED << _timer, threads, is_running >>
       ELSE /\ _timer' = next_call'
            /\ threads' = [threads EXCEPT ![_timer'] = "waiting"]
            /\ is_running' = TRUE
  /\ timer_pc' = "started"
  /\ UNCHANGED << invoked, late >>
  /\ ZoneWaits

\* threading.Timer.run: the wait is over and the Timer was not cancelled, its
\* thread calls _run
TimerFires(t) ==
  /\ threads[t] = "waiting"
  /\ threads' = [threads EXCEPT ![t] = "run"]
  /\ UNCHANGED << is_running, _timer, next_call, timer_pc, invoked, late >>
  /\ ZoneWaits

\* _run: "self.is_running = False"
runClearsFlag(t) ==
  /\ threads[t] = "run"
  /\ is_running' = FALSE
  /\ threads' = [threads EXCEPT ![t] = "cont"]
  /\ UNCHANGED << _timer, next_call, timer_pc, invoked, late >>
  /\ ZoneWaits

\* cont() called by _run: "if not self.is_running"
contTest(t) ==
  /\ threads[t] = "cont"
  /\ threads' = [threads EXCEPT ![t] = IF is_running THEN "function" ELSE "new"]
  /\ UNCHANGED << is_running, _timer, next_call, timer_pc, invoked, late >>
  /\ ZoneWaits

\* cont(): "self.next_call += self.interval", the new Timer in self._timer, and
\* its start()
contNewTimer(t) ==
  /\ threads[t] = "new" /\ next_call < MaxTimers
  /\ next_call' = next_call + 1
  /\ _timer' = next_call'
  /\ threads' = [threads EXCEPT ![t] = "set", ![_timer'] = "waiting"]
  /\ UNCHANGED << is_running, timer_pc, invoked, late >>
  /\ ZoneWaits

\* cont(): "self.is_running = True"
contSetsFlag(t) ==
  /\ threads[t] = "set"
  /\ is_running' = TRUE
  /\ threads' = [threads EXCEPT ![t] = "function"]
  /\ UNCHANGED << _timer, next_call, timer_pc, invoked, late >>
  /\ ZoneWaits

\* _run: "self.function(*self.args, **self.kwargs)", the pulse callback
runCallsFunction(t) ==
  /\ threads[t] = "function"
  /\ invoked' = invoked \cup { t }
  /\ late' = IF timer_pc = "stopped" THEN late \cup { t } ELSE late
  /\ threads' = [threads EXCEPT ![t] = "done"]
  /\ UNCHANGED << is_running, _timer, next_call, timer_pc >>
  /\ ZoneWaits

\* stop(): "self._timer.cancel()", which stops a Timer that is still waiting and
\* does nothing to one whose thread is in _run or has ended
stopCancel ==
  /\ timer_pc = "started"
  /\ threads' = IF threads[_timer] = "waiting"
                  THEN [threads EXCEPT ![_timer] = "cancelled"]
                  ELSE threads
  /\ timer_pc' = "stop"
  /\ UNCHANGED << is_running, _timer, next_call, invoked, late >>
  /\ ZoneWaits

\* stop(): "self.is_running = False", and stop() returns
stopClearsFlag ==
  /\ timer_pc = "stop"
  /\ is_running' = FALSE
  /\ timer_pc' = "stopped"
  /\ UNCHANGED << _timer, next_call, threads, invoked, late >>
  /\ ZoneWaits

_run ==
  \E t \in Timers :
    \/ TimerFires(t)
    \/ runClearsFlag(t)
    \/ contTest(t)
    \/ contNewTimer(t)
    \/ contSetsFlag(t)
    \/ runCallsFunction(t)

stop ==
  \/ stopCancel
  \/ stopClearsFlag

\* an emulated zone of main with its timer new
TimerInit ==
  /\ InitWith([z \in Zones |-> ZoneMinFlow[z]])
  /\ days = EVAP_RANGE /\ emulating /\ ~info /\ zones_to_water.all
  /\ cursor = << >> /\ NoRows
  /\ NewFlowMeter
  /\ NewRepeatedTimer

TimerNext == start \/ _run \/ stop

TimerSpec == TimerInit /\ [][TimerNext]_vars

(***************************************************************************)
(* What the state of a run says about its latest watering session.         *)
(***************************************************************************)
Active == { "Priming", "Monitoring", "Switching" }
Ended == { "Complete", "Failed", "Interrupted" }

OpenSources == { s \in Sources : source_valve[s] }
OpenZones == { z \in Zones : zone_valve[z] }

\* the session went on to a later source
Switched == session_zone # 0 /\ source_index # session_source

\* main has left the latest session and actual_liters still holds what it delivered
JustEnded == state \in Ended /\ pc \in { "zones", "exit" } /\ exit_code # "done"

\* the depth the latest session delivered, in mm
DeliveredDepth == RDiv[actual_liters, R(ZoneArea[session_zone])]

\* the depths the ledger holds for zone z, oldest first
RECURSIVE Appended(_, _)
Appended(rows, z) ==
  IF rows = << >> THEN << >>
  ELSE IF Head(rows).zone = z
         THEN << Head(rows).watered >> \o Appended(Tail(rows), z)
         ELSE Appended(Tail(rows), z)

Clamp(x, lo, hi) == RMax[lo, RMin[x, hi]]

\* load_irrigated for zone z with a window that holds every row of rows: the
\* column watered of the rows whose zone matches, as floats
load_irrigated(rows, z) == Appended(rows, z)

\* numpy.sum(waterDay)
RECURSIVE WaterSumOf(_)
WaterSumOf(waterDay) ==
  IF waterDay = << >> THEN R(0) ELSE RAdd[Head(waterDay), WaterSumOf(Tail(waterDay))]

(***************************************************************************)
(* C11: in deficit mode the target depth of a zone (0 when the zone is     *)
(* skipped, else the capped net evaporation) does not decrease when        *)
(* evapSum grows and does not increase when rainSum or waterSum grows.     *)
(* Stated at the zones main has just computed a depth for, against every   *)
(* shift of the three sums by the amounts of Shifts.                       *)
(***************************************************************************)
Shifts == { R(0), <<1, 2>>, R(1), R(9) }

\* the zone main has just computed a depth for in deficit mode, 0 when there is none
DepthZone ==
  IF days > 0 /\ pc = "prime_sleep" THEN zone
  ELSE IF days > 0 /\ pc = "zones" /\ zone > 1 /\ net_evap # Unset /\ Selected(zone - 1)
         THEN zone - 1
         ELSE 0

\* the waterSum load_irrigated gave for that zone, from net_evap
DepthWaterSum == RSub[RSub[RMul[evapSum, ZoneShadow[DepthZone]], rainSum], net_evap]

\* the depth main went on with: liters_per_m2, or none for a skipped zone
DepthNow == IF RLe[net_evap, R(1)] THEN R(0) ELSE liters_per_m2

C11_DepthMonotone ==
  DepthZone # 0 =>
    /\ DepthNow = TargetDepth(evapSum, ZoneShadow[DepthZone], rainSum, DepthWaterSum)
    /\ RLe[R(0), DepthNow] /\ RLe[DepthNow, R(MAX_IRRIGATION)]
    /\ \A de \in Shifts :
         RLe[DepthNow, TargetDepth(RAdd[evapSum, de], ZoneShadow[DepthZone], rainSum,
                                   DepthWaterSum)]
    /\ \A dr \in Shifts, dw \in Shifts :
         RLe[TargetDepth(evapSum, ZoneShadow[DepthZone], RAdd[rainSum, dr],
                         RAdd[DepthWaterSum, dw]), DepthNow]

\* a zone watered with less than the cap: more evaporation gives a greater depth
C11_Witness ==
  /\ DepthZone # 0 /\ pc = "prime_sleep"
  /\ RLt[DepthNow, TargetDepth(RAdd[evapSum, R(1)], ZoneShadow[DepthZone], rainSum,
                               DepthWaterSum)]

(***************************************************************************)
(* C12: a zone whose target depth is 1 mm or less is skipped: no valve is  *)
(* opened for it, its flow sensor is not subscribed and nothing is written *)
(* to the ledger, in deficit mode and with a fixed amount alike.  So a     *)
(* zone that got a watering session has a target depth above 1 mm.         *)
(***************************************************************************)
C12_SmallDepthSkipped ==
  (pc \in Sleeps \/ OpenZones # {} \/ \E z \in Zones : callback[z])
    => RLt[R(1), liters_per_m2]

(***************************************************************************)
(* C13: a fixed amount that is not 0 goes first, with or without a days    *)
(* window: days is 0, the weather archive and the ledger are never read    *)
(* (evapSum, rainSum and net_evap stay unassigned) and the depth of every  *)
(* zone processed is the amount itself, no shadow factor and no cap.       *)
(***************************************************************************)
C13_FixedAmountFirst ==
  /\ \A d \in DaysArgs, a \in Amounts, l \in LoopSeconds :
       parse_arguments(d, a, l) = << 0, a, l >>
  /\ amount # R(0) =>
       /\ days = 0
       /\ evapSum = Unset /\ rainSum = Unset /\ net_evap = Unset
       /\ liters_per_m2 \in { Unset, amount }
       /\ pc \in Sleeps =>
            /\ liters_per_m2 = amount
            /\ liters = RMul[R(ZoneArea[zone]), amount]

\* the second zone is watered with the fixed amount
C13_Witness ==
  /\ amount # R(0) /\ pc = "monitor_sleep" /\ zone = 2
  /\ liters = RMul[R(ZoneArea[2]), amount]

(***************************************************************************)
(* C14: what load_evaporation returns holds the rows of the archive with   *)
(* no NULL and nothing else: the five series are as long as the number of  *)
(* such rows, and element i of each of them is the reading of the i-th of  *)
(* these rows (pressure and radiation in the units of the code).           *)
(***************************************************************************)
C14_NullRowsDropped ==
  Returned =>
    LET full == FullRows(Len(cursor))
    IN /\ Len(tempDay) = Len(full) /\ Len(humidityDay) = Len(full)
       /\ Len(pressureDay) = Len(full) /\ Len(radiationDay) = Len(full)
       /\ Len(rainDay) = Len(full)
       /\ \A i \in 1..Len(full) :
            /\ tempDay[i] = full[i] /\ humidityDay[i] = full[i]
            /\ pressureDay[i] = full[i] * 100
            /\ radiationDay[i] = full[i] * 5 * 60
            /\ rainDay[i] = full[i]

(***************************************************************************)
(* C15: the zones are visited in their configured order, and a zone is     *)
(* passed over exactly when the caller gave a list of names and the zone's *)
(* name contains none of them; with the default 'all' no zone is passed    *)
(* over.                                                                   *)
(***************************************************************************)
C15_AnyNameSelects ==
  [][(pc = "zones" /\ zone \in Zones) =>
       /\ zone' = zone + 1 \/ pc' # "zones"
       /\ ZoneFiltered <=>
            /\ ~zones_to_water.all
            /\ \A i \in DOMAIN zones_to_water.words :
                 ~NameContains(zone, zones_to_water.words[i])]_vars

(***************************************************************************)
(* C16: with pulseCallback and getFlowRate on two threads, once both have  *)
(* returned no rate a pulse appended has been taken away by the clear of   *)
(* getFlowRate without being part of a result, and no rate is part of two  *)
(* results.                                                                *)
(***************************************************************************)
C16_EachRateInOneResult ==
  (pulse_pc = "idle" /\ poll_pc = "idle") =>
    /\ Lost = {}
    /\ \A k \in 1..MaxPulses : seen[k] <= 1

C18_GapEmptiesBuffer ==
  /\ []((poll_pc = "clear" /\ quiet = "polling") => average_flow_rate = R(0))
  /\ []((quiet = "yes" /\ poll_pc = "idle") => last_flow_rates = << >>)
  /\ [][(pulse_pc = "store" /\ pulse_pc' = "idle") =>
          /\ last_time' = current_time
          /\ RLe[R(2), RSub[current_time, last_time]] => last_flow_rates' = << >>]_vars

\* a rate was appended, a pulse came exactly 2 s later, and getFlowRate runs
C18_Witness ==
  /\ poll_pc = "clear" /\ quiet = "polling"
  /\ pulses = 2 /\ diff = R(2) /\ last_flow_rate # R(0)
  /\ last_time = current_time

(***************************************************************************)
(* C19: source_index never goes down in a run, and a zone starts watering  *)
(* on the source source_index names when the zone before it ended: the     *)
(* start of a zone leaves source_index as it is and opens that source.     *)
(***************************************************************************)
C19_SourceCarriesOver ==
  [][/\ source_index' >= source_index
     /\ (pc = "zones" /\ pc' = "prime_sleep") =>
          /\ source_index' = source_index
          /\ session_source' = source_index
          /\ ~emulating => source_valve'[source_index]]_vars

\* the second zone starts on the second source, the first zone having switched
C19_Witness ==
  /\ pc = "prime_sleep" /\ session_zone = 2
  /\ source_index = 1 /\ session_source = 1
  /\ ~emulating /\ source_valve[1] /\ ~source_valve[0]

(***************************************************************************)
(* C20: in emulate mode every valve stays closed and the ledger stays      *)
(* empty through the whole run, however the zones end; no step of such a   *)
(* run changes a valve or the ledger.                                      *)
(***************************************************************************)
C20_EmulateTouchesNothing ==
  /\ [](emulating => (OpenZones = {} /\ OpenSources = {} /\ ledger = << >>))
  /\ [][emulating => UNCHANGED << zone_valve, source_valve, ledger >>]_vars

\* an emulated run that has watered its first zone, has gone to the second source
\* and is cancelled after some water in its second zone
C20_Witness ==
  /\ emulating /\ ~info
  /\ session_zone = 2 /\ state = "Interrupted"
  /\ source_index = 1
  /\ RLt[R(0), actual_liters] /\ RLt[R(0), irrigated_liters[1]]

(***************************************************************************)
(* C21: in info mode, with a look-back window and with a fixed amount      *)
(* alike, no valve is open and the ledger is empty, the liters stored for  *)
(* a zone just reported are its area times the depth the run would water   *)
(* it with, the run ends by the end of main or by "No irrigation needed",  *)
(* and the total at the end of main is the sum of the zones' liters.       *)
(***************************************************************************)
C21_InfoReportsAndEnds ==
  info =>
    /\ OpenZones = {} /\ OpenSources = {} /\ ledger = << >>
    /\ \A z \in Zones : ~callback[z]
    /\ exit_code \in { "running", "0", "done" }
    /\ (days > 0 /\ pc = "zones" /\ zone > 1 /\ Selected(zone - 1)
          /\ RLt[R(1), net_evap])
         => irrigated_liters[zone - 1] = RMul[R(ZoneArea[zone - 1]), liters_per_m2]
    /\ exit_code = "done" => actual_liters = SumLiters(irrigated_liters, NZones)

(***************************************************************************)
(* C22: when a session has ended (Complete, Failed, Interrupted), in a     *)
(* real and in an emulated run, the depth the program holds for its report *)
(* is the liters delivered to that zone divided by that zone's area: it is *)
(* assigned, it is not the depth of an earlier zone, and no read of it     *)
(* raises.                                                                 *)
(***************************************************************************)
C22_DepthOfThisZone ==
  JustEnded =>
    /\ exit_code # "UnboundLocalError"
    /\ actual_liters_per_m2 = RDiv[actual_liters, R(ZoneArea[session_zone])]

(***************************************************************************)
(* C23: with a look-back window, once the sums are known and the rainfall  *)
(* is not below the evaporation sum (no shadow factor), the run has ended  *)
(* with exit(0) before the first zone: no valve open, no flow callback set,*)
(* no source chosen, the ledger not read (net_evap unassigned) and empty.  *)
(***************************************************************************)
C23_EnoughRainEndsRun ==
  (days > 0 /\ evapSum # Unset /\ RLe[evapSum, rainSum]) =>
    /\ pc = "exit" /\ exit_code = "0"
    /\ zone = 0 /\ source_index = -1
    /\ OpenZones = {} /\ OpenSources = {}
    /\ \A z \in Zones : ~callback[z]
    /\ net_evap = Unset /\ liters_per_m2 = Unset
    /\ ledger = << >>

\* a real run whose rainfall equals its evaporation sum has ended
C23_Witness ==
  /\ days > 0 /\ ~emulating
  /\ evapSum # Unset /\ rainSum = evapSum
  /\ pc = "exit" /\ exit_code = "0"

(***************************************************************************)
(* C24: when save_irrigated is called with a depth d > 0 for a zone, the   *)
(* sum load_irrigated gives for that zone afterwards, over a window that   *)
(* holds the new row, is the sum before plus d exactly.                    *)
(***************************************************************************)
C24_SavedDepthReadBack ==
  [][(~emulating /\ actual_liters_per_m2' # actual_liters_per_m2
        /\ pc' \in { "zones", "exit" } /\ exit_code' # "done"
        /\ RLt[R(0), actual_liters_per_m2']) =>
       WaterSumOf(load_irrigated(ledger', session_zone)) =
         RAdd[WaterSumOf(load_irrigated(ledger, session_zone)),
              actual_liters_per_m2']]_vars

(***************************************************************************)
(* C25: in a run that waters, the liters stored for a zone change only     *)
(* when that zone's session ends, to the liters delivered in it; a zone    *)
(* whose session has completed holds them; and at the end of main the      *)
(* total is the sum of the three zones' liters, a zone that was filtered   *)
(* out or needed no water still holding 0.                                 *)
(***************************************************************************)
C25_TotalIsSumOfZones ==
  /\ [][~info =>
          \A z \in Zones :
            irrigated_liters'[z] # irrigated_liters[z] =>
              /\ z = session_zone
              /\ irrigated_liters'[z] = actual_liters']_vars
  /\ []((~info /\ state = "Complete" /\ pc = "zones")
          => irrigated_liters[session_zone] = actual_liters)
  /\ []((~info /\ exit_code = "done") =>
          /\ actual_liters = RAdd[RAdd[irrigated_liters[1], irrigated_liters[2]],
                                  irrigated_liters[3]]
          /\ \A z \in Zones : ~Selected(z) => irrigated_liters[z] = R(0))

\* a run with a look-back window has ended: the first and the third zone were
\* watered, the second needed no water
C25_Witness ==
  /\ ~info /\ ~emulating /\ days > 0 /\ exit_code = "done"
  /\ RLt[R(0), irrigated_liters[1]] /\ irrigated_liters[2] = R(0)
  /\ RLt[R(0), irrigated_liters[3]]
  /\ actual_liters = RAdd[irrigated_liters[1], irrigated_liters[3]]

(***************************************************************************)
(* C26: every monitoring poll, the poll that finds the flow too low        *)
(* included, adds (seconds since the previous poll) * (its reading) / 60   *)
(* to actual_liters.                                                       *)
(***************************************************************************)
C26_EveryPollCredits ==
  [][(pc = "monitor_sleep" /\ last_poll'.polled) =>
       actual_liters' =
         RAdd[actual_liters,
              Credit(RAdd[since_previous, SleepTime(duration)], flow_rate')]]_vars

(***************************************************************************)
(* C27: the 10 s of priming, credited when priming ends, are not credited  *)
(* again: the first monitoring poll of a session credits the seconds of    *)
(* its own sleep only, so the seconds credited so far (10 + the sleep) are *)
(* the seconds since the valves were opened.                               *)
(***************************************************************************)
C27_PrimingCreditedOnce ==
  [][(pc = "monitor_sleep" /\ last_poll = NoPoll /\ ~Switched
        /\ last_poll'.polled /\ ~last_poll'.switched) =>
       actual_liters' =
         RAdd[actual_liters, Credit(SleepTime(duration), flow_rate')]]_vars

(***************************************************************************)
(* C28: when the first priming of a session has ended and the monitoring   *)
(* loop is entered, duration is (liters - actual_liters) / max(flow_rate,  *)
(* 1) * 60, actual_liters holding the liters of the 10 s of priming, and   *)
(* those liters are below the target.                                      *)
(***************************************************************************)
C28_DurationOfRemainder ==
  (pc = "monitor_sleep" /\ last_poll = NoPoll /\ ~Switched) =>
    /\ duration = Duration(RSub[liters, actual_liters], flow_rate)
    /\ RLt[actual_liters, liters]

C30_SwitchOrder ==
  /\ []((~emulating /\ pc = "switch_settle") =>
          (OpenSources = {} /\ OpenZones = { zone } /\ since_current = R(0)))
  /\ [][(~emulating /\ last_poll'.polled /\ last_poll'.switched) =>
          (pc' = "switch_settle" /\ source_index' = source_index)]_vars
  /\ [][(~emulating /\ pc = "switch_settle") =>
          /\ flow_rate' = flow_rate
          /\ pc' = "switch_prime" =>
               /\ source_index < NSources - 1 /\ source_index' = source_index + 1
               /\ OpenSources' = { source_index' } /\ OpenZones' = { zone }
               /\ since_current' = R(SETTLE_WAIT)
          /\ state' = "Failed" =>
               /\ source_index = NSources - 1 /\ source_index' = source_index
               /\ OpenSources' = {} /\ OpenZones' = {}
          /\ pc' = "switch_prime" \/ state' = "Failed" \/ exit_code' = "SystemExit"]_vars
  /\ [][(~emulating /\ pc = "switch_prime" /\ pc' = "monitor_sleep") =>
          since_previous' = R(SETTLE_WAIT + PRIME_WAIT)]_vars

\* a real run waters on with the second source, read 25 s after the switching poll
C30_Witness ==
  /\ ~emulating /\ pc = "monitor_sleep" /\ Switched
  /\ last_poll = NoPoll /\ since_previous = R(SETTLE_WAIT + PRIME_WAIT)
  /\ OpenSources = { 1 } /\ OpenZones = { zone }

(***************************************************************************)
(* C31: source_index, once assigned, is an index of sources (it is         *)
(* assigned before the first session); a source valve that opens is the    *)
(* valve of sources[source_index]; and source_index changes only by a      *)
(* switch to the next index, so a run has at most NSources - 1 switches.   *)
(***************************************************************************)
C31_SourceIndexInRange ==
  /\ [](source_index \in Sources \cup { -1 })
  /\ [](session_zone # 0 => source_index \in Sources)
  /\ [](source_index = -1 => (pc = "main" \/ info \/ exit_code = "0"))
  /\ [][\A s \in Sources :
          (source_valve'[s] /\ ~source_valve[s]) => s = source_index']_vars
  /\ [][source_index' # source_index =>
          /\ source_index' = source_index + 1
          /\ pc = "main" \/ pc' = "switch_prime"]_vars

\* the session went from the first source to the last one and ran out of sources
C31_Witness ==
  /\ ~emulating /\ state = "Failed"
  /\ session_source = 0 /\ source_index = NSources - 1
  /\ OpenSources = {}

(***************************************************************************)
(* C33: the rate of the first pulse a FlowMeter receives after its         *)
(* construction is part of no getFlowRate result, whatever the time from   *)
(* the construction to that pulse.                                         *)
(***************************************************************************)
C33_FirstPulseNeverCounts ==
  seen[1] = 0

(***************************************************************************)
(* C32: once stop() has returned no thread calls the function of the       *)
(* timer any more and no Timer is left that will run, however stop() and   *)
(* the thread of a Timer that is in _run interleave.                       *)
(***************************************************************************)
C32_StopEndsCallbacks ==
  timer_pc = "stopped" => (late = {} /\ Scheduled = {})

(***************************************************************************)
(* C1: every watering session that starts terminates, in Complete, Failed  *)
(* or Interrupted, for any readings >= 0 and any flow_required, the        *)
(* constructor's default -1 included: no execution stays in the monitoring *)
(* loop forever.                                                           *)
(***************************************************************************)
C1_SessionEnds == (state \in Active) ~> (state \in Ended)

(***************************************************************************)
(* C2: in a non-emulated run a cancellation during any of the sleeps (the  *)
(* priming wait, a monitoring sleep, the settle wait of a switch, the      *)
(* priming wait after a switch, the settle wait after completion) has the  *)
(* zone valve and every source valve closed when the process exits.        *)
(***************************************************************************)
C2_ClosedOnCancel ==
  (pc = "exit" /\ ~emulating /\ (state = "Interrupted" \/ exit_code = "SystemExit"))
    => (OpenZones = {} /\ OpenSources = {})

(***************************************************************************)
(* C3: in a non-emulated run a session that has ended, by whichever path   *)
(* (Complete, Failed, Interrupted at any sleep), has exactly one row in    *)
(* the ledger, carrying its delivered depth, when that depth is above 0,   *)
(* and no row when it is 0.                                                *)
(***************************************************************************)
C3_OneAppend ==
  (JustEnded /\ ~emulating)
    => Appended(ledger, session_zone) =
         IF RLt[R(0), DeliveredDepth] THEN << Round1(DeliveredDepth) >> ELSE << >>

C5_OneValve ==
  /\ [](Cardinality(OpenSources) <= 1 /\ Cardinality(OpenZones) <= 1)
  /\ [][\A s \in Sources :
          (~source_valve[s] /\ source_valve'[s]) => OpenSources \subseteq {s}]_vars

\* watering goes on from the second source after a switch
C5_Witness ==
  /\ Switched /\ state \in Active
  /\ OpenSources = { source_index } /\ OpenZones = { session_zone }

(***************************************************************************)
(* C6: a poll switches the source exactly when its reading and the reading *)
(* before it are both below the zone's flow_required.                      *)
(***************************************************************************)
C6_SwitchIffTwoLow ==
  last_poll.polled
    => (last_poll.switched
          <=> /\ RLt[last_poll.reading, flow_required[last_poll.zone]]
              /\ RLt[last_poll.before, flow_required[last_poll.zone]])

\* a poll that read a low flow after an adequate one and did not switch
C6_Witness ==
  /\ last_poll.polled /\ ~last_poll.switched
  /\ RLt[last_poll.reading, flow_required[last_poll.zone]]

(***************************************************************************)
(* C7: within a session the delivered liters never decrease, whatever the  *)
(* readings and across source switches.                                    *)
(***************************************************************************)
C7_Monotone ==
  [][(pc \in Sleeps) => RLe[actual_liters, actual_liters']]_vars

\* water was credited on the second source
C7_Witness ==
  /\ Switched /\ state = "Complete"
  /\ last_poll.polled /\ RLt[R(0), last_poll.reading]

(***************************************************************************)
(* C8: a source switch leaves the target liters and the delivered liters   *)
(* as they are, and the duration planned on the next source is             *)
(* (liters - actual_liters) / max(flow_rate, 1) * 60.                      *)
(***************************************************************************)
C8_SwitchKeepsCount ==
  /\ [][(pc' \in { "switch_settle", "switch_prime" } \/ pc \in { "switch_settle", "switch_prime" })
          => (liters' = liters /\ actual_liters' = actual_liters)]_vars
  /\ [][(pc = "switch_prime" /\ state' \in { "Monitoring", "Complete" })
          => duration' = Duration(RSub[liters, actual_liters], flow_rate')]_vars

\* monitoring on the second source with part of the target delivered before
C8_Witness ==
  /\ Switched /\ pc = "monitor_sleep" /\ since_previous # R(0)
  /\ RLt[R(0), actual_liters]
  /\ duration = Duration(RSub[liters, actual_liters], flow_rate)

(***************************************************************************)
(* C9: a session whose readings are all the same r, r >= 1 and             *)
(* r >= flow_required, completes with liters <= actual_liters <=           *)
(* liters + r * loop_seconds / 60.                                         *)
(***************************************************************************)
C9_Overshoot ==
  (state = "Complete" /\ exit_code # "done" /\ steady
     /\ RLe[R(1), flow_rate] /\ RLe[flow_required[session_zone], flow_rate])
    => /\ RLe[liters, actual_liters]
       /\ RLe[actual_liters, RAdd[liters, Credit(R(loop_seconds), flow_rate)]]

(***************************************************************************)
(* C10: in deficit mode the depth a zone's liters are computed from is     *)
(* the net deficit clamped to [0, MAX_IRRIGATION].                         *)
(***************************************************************************)
C10_ClampedDepth ==
  /\ (days > 0 /\ pc = "prime_sleep")
       => liters = RMul[R(ZoneArea[zone]), Clamp(net_evap, R(0), R(MAX_IRRIGATION))]
  /\ (days > 0 /\ info /\ pc = "zones" /\ zone > 1 /\ Selected(zone - 1)
        /\ RLt[R(1), net_evap])
       => liters = RMul[R(ZoneArea[zone - 1]), Clamp(net_evap, R(0), R(MAX_IRRIGATION))]
====
